---- MODULE Spec2Model ----
(***************************************************************************)
(* Model of the domain-event Publisher (src/events/DomainEventPublisher.ts) *)
(* under JavaScript's single-threaded, run-to-completion scheduling.        *)
(*                                                                         *)
(* The call stack is explicit: publish pushes a frame for its              *)
(* subscribers.map(...) loop, the map callback calls a listener's handle,   *)
(* and while the handler's synchronous body runs it may call back into the  *)
(* publisher.  When the stack is empty any independent task (an external    *)
(* caller, the continuation of a listener's handle) may call the publisher. *)
(***************************************************************************)
EXTENDS Integers, Sequences, FiniteSets, TLC

\* The listener objects and the events callers pass in.
Listeners == {"A", "B"}
Events == {"event1", "event2"}

\* Longest list of recorded domain events explored.
MaxEvents == 4
\* Longest registry explored for progress properties.
MaxLiveSubs == 2
\* Longest registry explored.
MaxSubs == 3
\* Most publish calls that may be dispatching at once (the code allows one).
MaxNesting == 2

VARIABLES
    subscribers,  \* Publisher.subscribers: the array this.subscribers refers to
    publishing,   \* Publisher.publishing
    calls,        \* the publish calls that entered the try block, see publish
    frames,       \* the call stack: one frame per running subscribers.map
    lastOp,       \* the step just taken and what its caller observed
    _domainEvents, \* AggregateRoot._domainEvents of one aggregate
    sinceClear,   \* the events passed to addDomainEvent since the last
                  \* clearDomainEvents, or since construction
    cleared       \* whether clearDomainEvents has discarded recorded events

vars == <<subscribers, publishing, calls, frames, lastOp, _domainEvents,
          sinceClear, cleared>>

\* The aggregate's variables, which no publisher operation touches, and the
\* publisher's, which no aggregate operation touches.
aggVars == <<_domainEvents, sinceClear, cleared>>
pubVars == <<subscribers, publishing, calls, frames>>

\* The outcomes of a promise returned by handle.
Settled == {"fulfilled", "rejected"}

\* ---------------------------------------------------------------------
\* Array helpers, as the JavaScript built-ins compute them.

RECURSIVE IndexFrom(_, _, _)
\* Array.prototype.indexOf's scan from 0-based position k: the first index
\* holding x, -1 when there is none.
IndexFrom(arr, x, k) ==
    IF k >= Len(arr) THEN -1
    ELSE IF arr[k + 1] = x THEN k
    ELSE IndexFrom(arr, x, k + 1)

RECURSIVE LastIndexFrom(_, _, _)
LastIndexFrom(arr, x, k) ==
    IF k < 0 THEN -1
    ELSE IF arr[k + 1] = x THEN k
    ELSE LastIndexFrom(arr, x, k - 1)

\* A scan from the end, as Array.prototype.lastIndexOf would do.
lastIndexOf(arr, x) == LastIndexFrom(arr, x, Len(arr) - 1)

indexOf(arr, x) == IndexFrom(arr, x, 0)

\* arr.splice(index, 1) for a 0-based index inside the array.
splice(arr, index) ==
    SubSeq(arr, 1, index) \o SubSeq(arr, index + 2, Len(arr))

\* ---------------------------------------------------------------------
\* The call stack.

Top == frames[Len(frames)]
Pop == SubSeq(frames, 1, Len(frames) - 1)

\* User code is running or may be scheduled: either no publisher code is on
\* the stack, or the innermost frame is inside a listener's handle.
UserCode == IF frames = <<>> THEN TRUE ELSE Top.inHandler

\* The array a frame's map iterates: the object this.subscribers referred to
\* when map started.  It is still this.subscribers unless reset replaced it.
FrameArr(f) == IF f.alias THEN subscribers ELSE f.arr

Op(op, arg, result) == [op |-> op, arg |-> arg, result |-> result]

Terminal(c) == c.status \in {"resolved", "rejected"}

Init ==
    /\ subscribers = <<>>
    /\ publishing = FALSE
    /\ calls = <<>>
    /\ frames = <<>>
    /\ lastOp = Op("new", "none", "returned")
    /\ _domainEvents = <<>>
    /\ sinceClear = <<>>
    /\ cleared = FALSE

\* ---------------------------------------------------------------------
\* Publisher.subscribe

\* subscribe without the publishing guard.
subscribeUnguarded(subscriber) ==
    /\ UserCode
    /\ Len(subscribers) < MaxSubs
    /\ subscribers' = Append(subscribers, subscriber)
    /\ lastOp' = Op("subscribe", subscriber, "returned")
    /\ UNCHANGED <<publishing, calls, frames>>
    /\ UNCHANGED aggVars

\* subscribe that refuses a listener already registered.
subscribeOnce(subscriber) ==
    /\ UserCode
    /\ publishing \/ Len(subscribers) < MaxSubs
    /\ IF publishing \/ indexOf(subscribers, subscriber) > -1
       THEN UNCHANGED subscribers
       ELSE subscribers' = Append(subscribers, subscriber)
    /\ lastOp' = Op("subscribe", subscriber, "returned")
    /\ UNCHANGED <<publishing, calls, frames>>
    /\ UNCHANGED aggVars

subscribe(subscriber) ==
    /\ UserCode
    /\ publishing \/ Len(subscribers) < MaxSubs
    /\ IF publishing
       THEN UNCHANGED subscribers
       ELSE subscribers' = Append(subscribers, subscriber)
    /\ lastOp' = Op("subscribe", subscriber, "returned")
    /\ UNCHANGED <<publishing, calls, frames>>
    /\ UNCHANGED aggVars

\* Publisher.unsubscribe

\* unsubscribe without the publishing guard.
unsubscribeUnguarded(subscriber) ==
    /\ UserCode
    /\ LET index == indexOf(subscribers, subscriber)
       IN IF index > -1
          THEN subscribers' = splice(subscribers, index)
          ELSE UNCHANGED subscribers
    /\ lastOp' = Op("unsubscribe", subscriber, "returned")
    /\ UNCHANGED <<publishing, calls, frames>>
    /\ UNCHANGED aggVars

unsubscribe(subscriber) ==
    /\ UserCode
    /\ IF publishing
       THEN /\ UNCHANGED subscribers
            /\ lastOp' = Op("unsubscribe", subscriber, "warned")
       ELSE /\ LET index == indexOf(subscribers, subscriber)
               IN IF index > -1
                  THEN subscribers' = splice(subscribers, index)
                  ELSE UNCHANGED subscribers
            /\ lastOp' = Op("unsubscribe", subscriber, "returned")
    /\ UNCHANGED <<publishing, calls, frames>>
    /\ UNCHANGED aggVars

\* reset that respects the publishing guard like subscribe does.
resetGuarded ==
    /\ UserCode
    /\ IF publishing THEN UNCHANGED subscribers ELSE subscribers' = <<>>
    /\ lastOp' = Op("reset", "none", "returned")
    /\ UNCHANGED <<publishing, calls, frames>>
    /\ UNCHANGED aggVars

\* reset that also releases the flag, as a full reinitialisation would.
resetClearsFlag ==
    /\ UserCode
    /\ subscribers' = <<>>
    /\ publishing' = FALSE
    /\ frames' = [i \in DOMAIN frames |->
                    IF frames[i].alias
                    THEN [frames[i] EXCEPT !.alias = FALSE, !.arr = subscribers]
                    ELSE frames[i]]
    /\ lastOp' = Op("reset", "none", "returned")
    /\ UNCHANGED calls
    /\ UNCHANGED aggVars

\* Publisher.reset: this.subscribers = [] makes a new array; a map that is
\* running keeps iterating the old one.

reset ==
    /\ UserCode
    /\ subscribers' = <<>>
    /\ frames' = [i \in DOMAIN frames |->
                    IF frames[i].alias
                    THEN [frames[i] EXCEPT !.alias = FALSE, !.arr = subscribers]
                    ELSE frames[i]]
    /\ lastOp' = Op("reset", "none", "returned")
    /\ UNCHANGED <<publishing, calls>>
    /\ UNCHANGED aggVars

\* ---------------------------------------------------------------------
\* Publisher.publish, up to the start of subscribers.map.  A call that finds
\* publishing set returns at once.  Otherwise the call is recorded: its
\* event, the registry at the call, the listeners whose handle was invoked,
\* the promises the handlers returned, and the state of the promise publish
\* returned ("mapping" while the synchronous part runs, "awaiting" at
\* Promise.allSettled, then "resolved" or "rejected").  Records of finished
\* calls are dropped when a new dispatch starts on an empty stack.

NewCall(event) ==
    [event |-> event, status |-> "mapping", atCall |-> subscribers,
     invoked |-> <<>>, promises |-> <<>>, threwAt |-> 0]

Kept == IF frames = <<>> /\ \A k \in DOMAIN calls : Terminal(calls[k])
        THEN <<>> ELSE calls

\* publish with the guard moved inside the try block, so that the finally
\* block also runs for a call the guard turns away.
publishGuardInTry(event) ==
    /\ UserCode
    /\ IF publishing
       THEN /\ lastOp' = Op("publish", event, "dropped")
            /\ publishing' = FALSE
            /\ UNCHANGED <<subscribers, calls, frames>>
       ELSE /\ Len(Kept) < MaxNesting
            /\ publishing' = TRUE
            /\ calls' = Append(Kept, NewCall(event))
            /\ frames' = Append(frames,
                   [call |-> Len(Kept) + 1, idx |-> 0, len |-> Len(subscribers),
                    alias |-> TRUE, arr |-> <<>>, inHandler |-> FALSE])
            /\ lastOp' = Op("publish", event, "entered")
            /\ UNCHANGED subscribers
    /\ UNCHANGED aggVars

publish(event) ==
    /\ UserCode
    /\ IF publishing
       THEN /\ lastOp' = Op("publish", event, "dropped")
            /\ UNCHANGED <<subscribers, publishing, calls, frames>>
       ELSE /\ Len(Kept) < MaxNesting
            /\ publishing' = TRUE
            /\ calls' = Append(Kept, NewCall(event))
            /\ frames' = Append(frames,
                   [call |-> Len(Kept) + 1, idx |-> 0, len |-> Len(subscribers),
                    alias |-> TRUE, arr |-> <<>>, inHandler |-> FALSE])
            /\ lastOp' = Op("publish", event, "entered")
            /\ UNCHANGED subscribers
    /\ UNCHANGED aggVars

\* One iteration of subscribers.map: the callback calls subscriber.handle.
\* map fixes the length when it starts and skips an index the array no
\* longer has.
Invoke ==
    /\ frames # <<>>
    /\ ~Top.inHandler
    /\ Top.idx < Top.len
    /\ IF Top.idx < Len(FrameArr(Top))
       THEN /\ calls' = [calls EXCEPT ![Top.call].invoked =
                            Append(@, FrameArr(Top)[Top.idx + 1])]
            /\ frames' = [frames EXCEPT ![Len(frames)].inHandler = TRUE]
            /\ lastOp' = Op("handle", FrameArr(Top)[Top.idx + 1], "called")
       ELSE /\ calls' = [calls EXCEPT ![Top.call].promises = Append(@, "fulfilled")]
            /\ frames' = [frames EXCEPT ![Len(frames)].idx = @ + 1]
            /\ lastOp' = Op("handle", "none", "skipped")
    /\ UNCHANGED <<subscribers, publishing>>
    /\ UNCHANGED aggVars

\* handle returns: a promise (pending, or already settled) or a plain value,
\* which Promise.allSettled treats as fulfilled.
HandlerReturn(outcome) ==
    /\ frames # <<>>
    /\ Top.inHandler
    /\ calls' = [calls EXCEPT ![Top.call].promises = Append(@, outcome)]
    /\ frames' = [frames EXCEPT ![Len(frames)].idx = @ + 1,
                                ![Len(frames)].inHandler = FALSE]
    /\ lastOp' = Op("return", outcome, "returned")
    /\ UNCHANGED <<subscribers, publishing>>
    /\ UNCHANGED aggVars

\* A synchronous throw with the flag cleared after the await instead of in a
\* finally block.
HandlerThrowNoFinally ==
    /\ frames # <<>>
    /\ Top.inHandler
    /\ calls' = [calls EXCEPT ![Top.call].status = "rejected",
                              ![Top.call].threwAt = Top.idx + 1]
    /\ frames' = Pop
    /\ lastOp' = Op("throw", "none", "rejected")
    /\ UNCHANGED <<subscribers, publishing>>
    /\ UNCHANGED aggVars

\* handle throws synchronously: the exception leaves the map callback and
\* map, the finally block runs, and the promise publish returned rejects.
HandlerThrow ==
    /\ frames # <<>>
    /\ Top.inHandler
    /\ calls' = [calls EXCEPT ![Top.call].status = "rejected",
                              ![Top.call].threwAt = Top.idx + 1]
    /\ frames' = Pop
    /\ publishing' = FALSE
    /\ lastOp' = Op("throw", "none", "rejected")
    /\ UNCHANGED subscribers
    /\ UNCHANGED aggVars

\* map is done: publish suspends at await Promise.allSettled(promises) and
\* control returns to its caller.
Await ==
    /\ frames # <<>>
    /\ ~Top.inHandler
    /\ Top.idx = Top.len
    /\ calls' = [calls EXCEPT ![Top.call].status = "awaiting"]
    /\ frames' = Pop
    /\ lastOp' = Op("await", "none", "suspended")
    /\ UNCHANGED <<subscribers, publishing>>
    /\ UNCHANGED aggVars

\* A pending promise returned by a handler settles.
Settle(k, i, outcome) ==
    /\ UserCode
    /\ k \in DOMAIN calls
    /\ i \in DOMAIN calls[k].promises
    /\ calls[k].promises[i] = "pending"
    /\ calls' = [calls EXCEPT ![k].promises[i] = outcome]
    /\ lastOp' = Op("settle", outcome, "settled")
    /\ UNCHANGED <<subscribers, publishing, frames>>
    /\ UNCHANGED aggVars

\* Promise.allSettled has settled: publish resumes on an empty stack, runs
\* the finally block and resolves.
Resume(k) ==
    /\ frames = <<>>
    /\ k \in DOMAIN calls
    /\ calls[k].status = "awaiting"
    /\ \A i \in DOMAIN calls[k].promises : calls[k].promises[i] \in Settled
    /\ calls' = [calls EXCEPT ![k].status = "resolved"]
    /\ publishing' = FALSE
    /\ lastOp' = Op("resume", "none", "resolved")
    /\ UNCHANGED <<subscribers, frames>>
    /\ UNCHANGED aggVars

Next ==
    \/ \E l \in Listeners : subscribe(l)
    \/ \E l \in Listeners : unsubscribe(l)
    \/ reset
    \/ \E e \in Events : publish(e)
    \/ Invoke
    \/ \E o \in {"pending", "fulfilled", "rejected"} : HandlerReturn(o)
    \/ HandlerThrow
    \/ Await
    \/ \E k \in 1..MaxNesting, i \in 1..MaxSubs, o \in Settled : Settle(k, i, o)
    \/ \E k \in 1..MaxNesting : Resume(k)

Spec == Init /\ [][Next]_vars

Bounded ==
    /\ Len(subscribers) <= MaxSubs
    /\ publishing \in BOOLEAN
    /\ Len(calls) <= MaxNesting
    /\ Len(frames) <= MaxNesting

\* ---------------------------------------------------------------------
\* Properties.

Range(seq) == {seq[i] : i \in DOMAIN seq}

\* The handle call at position j of a dispatch failed: it threw, or the
\* promise it returned has rejected.
Failed(c, j) ==
    \/ c.threwAt = j
    \/ j \in DOMAIN c.promises /\ c.promises[j] = "rejected"

\* The steps a dispatch itself takes.
DispatchOps == {"handle", "return", "throw", "await", "resume"}

\* C1: once the synchronous part of a publish call that entered dispatch is
\* over, handle has been invoked on exactly the registry as it stood at the
\* call, in order, once per entry; and no step of the dispatch changes the
\* registry.
C1_InvokesRegistryInOrder ==
    /\ [](\A k \in DOMAIN calls :
            calls[k].status # "mapping" => calls[k].invoked = calls[k].atCall)
    /\ [][lastOp'.op \in DispatchOps => subscribers' = subscribers]_vars

\* C2: when a listener's handle has failed (thrown, or returned a promise
\* that rejected), every listener after it in the registry is still invoked
\* by the time the synchronous part of publish is over.
C2_FailureDoesNotStopDelivery ==
    \A k \in DOMAIN calls :
        \A j \in DOMAIN calls[k].atCall :
            (calls[k].status # "mapping" /\ Failed(calls[k], j))
                => \A i \in DOMAIN calls[k].atCall :
                       i > j => /\ i \in DOMAIN calls[k].invoked
                                /\ calls[k].invoked[i] = calls[k].atCall[i]

\* C3: no call ends in a raised error: no operation throws and the promise
\* returned by publish never rejects.
C3_NothingRaises ==
    /\ lastOp.op \in {"subscribe", "unsubscribe", "reset", "publish"}
          => lastOp.result \notin {"threw", "rejected"}
    /\ \A k \in DOMAIN calls : calls[k].status # "rejected"

\* C4: a publish call made while publishing is set returns at once without
\* error and leaves the whole publisher state as it was: no listener is
\* invoked for its event and nothing is kept from which the event could be
\* delivered later.
C4_PublishWhileDispatchingDropped ==
    [][(lastOp'.op = "publish" /\ publishing)
          => /\ lastOp'.result = "dropped"
             /\ UNCHANGED <<subscribers, publishing, calls, frames>>]_vars

\* A listener's handle, invoked for event1, has called publish(event2).
C4_Witness ==
    /\ lastOp = Op("publish", "event2", "dropped")
    /\ frames # <<>>
    /\ Top.inHandler
    /\ calls[Top.call].event = "event1"

\* C5: a subscribe call made while publishing is set returns without error
\* and leaves the registry unchanged, and the step that ends the dispatch
\* does not add the listener either.
C5_SubscribeWhileDispatchingDropped ==
    [][/\ (lastOp'.op = "subscribe" /\ publishing)
            => subscribers' = subscribers /\ lastOp'.result = "returned"
       /\ (publishing /\ ~publishing') => subscribers' = subscribers]_vars

\* A listener's handle has called subscribe with a listener not registered.
C5_Witness ==
    /\ lastOp.op = "subscribe"
    /\ publishing
    /\ frames # <<>>
    /\ Top.inHandler
    /\ lastOp.arg \notin Range(subscribers)

\* C6: an unsubscribe call made while publishing is set leaves the registry
\* unchanged and ends with the warning, not with an error.
C6_UnsubscribeWhileDispatchingRejected ==
    [][(lastOp'.op = "unsubscribe" /\ publishing)
          => subscribers' = subscribers /\ lastOp'.result = "warned"]_vars

\* unsubscribe of a registered listener was turned away during a dispatch.
C6_Witness ==
    /\ lastOp.op = "unsubscribe"
    /\ lastOp.result = "warned"
    /\ publishing
    /\ lastOp.arg \in Range(subscribers)

\* C7: the step in which a publish call that entered dispatch ends (resolved
\* after the await, or rejected by a synchronous throw) leaves publishing
\* false; with every recorded call ended, subscribe appends, unsubscribe is
\* not turned away and publish dispatches.
C7_FlagReleasedOnEveryExit ==
    [][/\ (\E k \in DOMAIN calls :
              /\ k \in DOMAIN calls'
              /\ ~Terminal(calls[k])
              /\ Terminal(calls'[k])) => ~publishing'
       /\ (calls # <<>> /\ \A k \in DOMAIN calls : Terminal(calls[k]))
            => /\ lastOp'.op = "subscribe"
                    => subscribers' = Append(subscribers, lastOp'.arg)
               /\ lastOp'.op = "unsubscribe" => lastOp'.result = "returned"
               /\ lastOp'.op = "publish" => lastOp'.result = "entered"]_vars

\* A publish call ended by a synchronous throw, then a subscribe took effect.
C7_Witness ==
    /\ Len(calls) = 1
    /\ calls[1].status = "rejected"
    /\ calls[1].threwAt > 0
    /\ lastOp.op = "subscribe"
    /\ subscribers = Append(calls[1].atCall, lastOp.arg)

\* C8: a subscribe call made while publishing is false appends exactly its
\* listener at the end of the registry, whether or not it is already there.
C8_SubscribeAppends ==
    [][(lastOp'.op = "subscribe" /\ ~publishing)
          => subscribers' = Append(subscribers, lastOp'.arg)]_vars

\* The same listener subscribed twice in a row while idle.
C8_Witness ==
    /\ lastOp.op = "subscribe"
    /\ ~publishing
    /\ Len(subscribers) >= 2
    /\ subscribers[Len(subscribers)] = lastOp.arg
    /\ subscribers[Len(subscribers) - 1] = lastOp.arg

\* The registry s without its entry at position i.
Without(s, i) ==
    [j \in 1..(Len(s) - 1) |-> IF j < i THEN s[j] ELSE s[j + 1]]

\* C9: an unsubscribe call made while publishing is false raises nothing and
\* removes the first occurrence of its listener, keeping the other entries
\* in order; without an occurrence the registry is unchanged.
C9_UnsubscribeRemovesFirst ==
    [][(lastOp'.op = "unsubscribe" /\ ~publishing)
          => /\ lastOp'.result = "returned"
             /\ IF lastOp'.arg \in Range(subscribers)
                THEN \E i \in DOMAIN subscribers :
                        /\ subscribers[i] = lastOp'.arg
                        /\ \A j \in 1..(i - 1) : subscribers[j] # lastOp'.arg
                        /\ subscribers' = Without(subscribers, i)
                ELSE subscribers' = subscribers]_vars

\* unsubscribe("A") while idle left a later "A" registered behind "B".
C9_Witness ==
    /\ lastOp = Op("unsubscribe", "A", "returned")
    /\ ~publishing
    /\ subscribers = <<"B", "A">>

\* C10: reset leaves the registry empty whatever it held and whatever the
\* flag, and a publish call that found the registry empty invokes nothing.
C10_ResetEmpties ==
    /\ [][lastOp'.op = "reset" => subscribers' = <<>>]_vars
    /\ [](\A k \in DOMAIN calls :
            calls[k].atCall = <<>> => calls[k].invoked = <<>>)

\* reset emptied a non-empty registry in the middle of a dispatch.
C10_Witness ==
    /\ lastOp.op = "reset"
    /\ publishing
    /\ subscribers = <<>>
    /\ calls # <<>>
    /\ calls[Len(calls)].atCall # <<>>

\* A publish call that entered dispatch and has not ended yet.
Active(c) == c.status \in {"mapping", "awaiting"}

\* C11 as stated: every step that changes the registry starts with
\* publishing false, so the registry keeps its content throughout a dispatch
\* whatever is called in between.
C11_RegistryFixedWhileDispatching ==
    [][subscribers' # subscribers => ~publishing]_vars

\* C11 amended: a step that changes the registry starts with publishing
\* false or is a reset; between the start and the end of a dispatch the
\* registry is either still its content at the start or has been emptied by
\* a reset.
C11_RegistryChangesIdleOrReset ==
    /\ [][subscribers' # subscribers
            => (~publishing \/ lastOp'.op = "reset")]_vars
    /\ [](\A k \in DOMAIN calls :
            Active(calls[k])
                => subscribers = calls[k].atCall \/ subscribers = <<>>)

\* During a dispatch over a non-empty registry a subscribe was turned away
\* and the registry is still what it was when the dispatch started.
C11_Witness ==
    /\ publishing
    /\ lastOp.op = "subscribe"
    /\ Len(calls) = 1
    /\ calls[1].status = "awaiting"
    /\ calls[1].atCall # <<>>
    /\ subscribers = calls[1].atCall

\* The publish calls between their entry into dispatch and their completion.
Dispatching == {k \in DOMAIN calls : Active(calls[k])}

\* C12: publishing is true exactly when one publish call is between its
\* entry into dispatch and its completion, never more than one is, and a
\* publish call turned away by the guard leaves the flag as it found it.
C12_FlagMarksTheOneDispatch ==
    /\ [](/\ Cardinality(Dispatching) <= 1
          /\ publishing <=> Cardinality(Dispatching) = 1)
    /\ [][(lastOp'.op = "publish" /\ lastOp'.result = "dropped")
            => publishing' = publishing /\ publishing']_vars

\* A dispatch is suspended at the barrier with a handler still pending, and
\* a second publish has just been turned away.
C12_Witness ==
    /\ publishing
    /\ lastOp.op = "publish"
    /\ lastOp.result = "dropped"
    /\ Dispatching = {1}
    /\ calls[1].status = "awaiting"
    /\ \E i \in DOMAIN calls[1].promises : calls[1].promises[i] = "pending"

\* C13 as stated: a publish call finds publishing already set only when it
\* is made from inside a listener's handle; a call made on an empty stack,
\* by an independent caller, never does.
C13_DroppedOnlyWhenReentrant ==
    [][(lastOp'.op = "publish" /\ lastOp'.result = "dropped")
          => frames # <<>>]_vars

\* C13 amended: a publish call finds publishing already set only while a
\* dispatch is in progress: made from inside a listener's handle of the
\* dispatch whose map is running, or made on an empty stack while a dispatch
\* is suspended at Promise.allSettled; on an empty stack with no dispatch
\* suspended a publish call always enters dispatch.
C13_DroppedOnlyDuringDispatch ==
    [][lastOp'.op = "publish"
          => IF lastOp'.result = "dropped"
             THEN IF frames # <<>>
                  THEN Top.inHandler /\ calls[Top.call].status = "mapping"
                  ELSE \E k \in DOMAIN calls : calls[k].status = "awaiting"
             ELSE /\ lastOp'.result = "entered"
                  /\ \A k \in DOMAIN calls : ~Active(calls[k])]_vars

\* An independent caller's publish was turned away on an empty stack while
\* the dispatch of another event waits at the barrier.
C13_Witness ==
    /\ lastOp = Op("publish", "event2", "dropped")
    /\ frames = <<>>
    /\ Len(calls) = 1
    /\ calls[1].status = "awaiting"
    /\ calls[1].event = "event1"

\* C14: when publish is suspended at Promise.allSettled, handle has been
\* started on every listener of the registry and each has returned its
\* promise; and when a publish call has completed, with publishing back to
\* false, every promise returned by a handle it started is settled.
C14_JoinAllBarrier ==
    \A k \in DOMAIN calls :
        /\ calls[k].status = "awaiting"
              => /\ calls[k].invoked = calls[k].atCall
                 /\ Len(calls[k].promises) = Len(calls[k].atCall)
        /\ Terminal(calls[k])
              => \A i \in DOMAIN calls[k].promises :
                     calls[k].promises[i] \in Settled

\* A handle started by call k has returned a promise that is not settled.
Hung(k) == \E i \in DOMAIN calls[k].promises : calls[k].promises[i] = "pending"

\* C16: as long as a promise returned by a listener's handle stays pending,
\* the publish call that invoked it has not completed and publishing is
\* true, so a subscribe, unsubscribe or publish call is turned away, while
\* a reset still empties the registry.
C16_HungListenerHoldsFlag ==
    /\ [](\A k \in DOMAIN calls :
            Hung(k) => ~Terminal(calls[k]) /\ publishing)
    /\ [][(\E k \in DOMAIN calls : Hung(k))
            => /\ lastOp'.op = "subscribe" => subscribers' = subscribers
               /\ lastOp'.op = "unsubscribe"
                    => subscribers' = subscribers /\ lastOp'.result = "warned"
               /\ lastOp'.op = "publish" => lastOp'.result = "dropped"
               /\ lastOp'.op = "reset" => subscribers' = <<>>]_vars

\* C17: a reset step leaves publishing as it was, and a subscribe,
\* unsubscribe or publish call made after a reset during a dispatch is still
\* turned away for as long as that dispatch has not ended.
C17_ResetKeepsFlag ==
    /\ [][lastOp'.op = "reset" => publishing' = publishing]_vars
    /\ [][(\E k \in DOMAIN calls : Active(calls[k]))
            => /\ lastOp'.op \in {"subscribe", "unsubscribe"}
                    => subscribers' = subscribers
               /\ lastOp'.op = "publish" => lastOp'.result = "dropped"]_vars

\* reset was called on an empty stack while a dispatch over a non-empty
\* registry is suspended at the barrier; the publisher is still dispatching.
C17_Witness ==
    /\ lastOp.op = "reset"
    /\ publishing
    /\ frames = <<>>
    /\ Len(calls) = 1
    /\ calls[1].status = "awaiting"
    /\ calls[1].atCall # <<>>
    /\ subscribers = <<>>

\* C18: when the map of a dispatch ends after a reset was called from inside
\* one of its handlers, handle has been invoked on every listener that was
\* in the registry when the publish call started, in order, and the registry
\* is empty.
C18_ResetKeepsInFlightDelivery ==
    [][(/\ frames # <<>>
        /\ ~Top.alias
        /\ lastOp'.op \in {"await", "throw"})
          => /\ calls'[Top.call].invoked = calls'[Top.call].atCall
             /\ subscribers' = <<>>]_vars

\* ---------------------------------------------------------------------
\* Progress.  The event loop runs publish's synchronous part to completion
\* and resumes it once Promise.allSettled has settled (Invoke, Await,
\* Resume).  The fairness on the handlers' steps is the hypothesis that
\* every handle that was started returns or throws, and that every promise
\* a handle returned settles.

HandlerEnds == HandlerThrow \/ \E o \in {"pending", "fulfilled", "rejected"} : HandlerReturn(o)

PromiseSettles == \E k \in 1..MaxNesting, i \in 1..MaxSubs, o \in Settled : Settle(k, i, o)

PublishResumes == \E k \in 1..MaxNesting : Resume(k)

\* The publisher's steps with callers that keep the registry within
\* MaxLiveSubs listeners: progress of a dispatch is explored over the shorter
\* registries.
LiveNext ==
    \/ \E l \in Listeners : Len(subscribers) < MaxLiveSubs /\ subscribe(l)
    \/ \E l \in Listeners : unsubscribe(l)
    \/ reset
    \/ \E e \in Events : publish(e)
    \/ Invoke
    \/ HandlerEnds
    \/ Await
    \/ PromiseSettles
    \/ PublishResumes

LiveSpec ==
    /\ Init
    /\ [][LiveNext]_vars
    /\ WF_vars(Invoke)
    /\ WF_vars(Await)
    /\ WF_vars(PublishResumes)
    /\ WF_vars(HandlerEnds)
    /\ WF_vars(PromiseSettles)

\* C15: when every handle started by a dispatch reaches a terminal outcome,
\* a publish call that entered dispatch eventually completes and publishing
\* eventually returns to false.
C15_DispatchEnds ==
    /\ publishing ~> ~publishing
    /\ (\E k \in DOMAIN calls : Active(calls[k]))
          ~> (\A k \in DOMAIN calls : Terminal(calls[k]))

\* A dispatch over two listeners has resumed and resolved although one of
\* the promises rejected; the publisher is idle again.
C15_Witness ==
    /\ ~publishing
    /\ lastOp.op = "resume"
    /\ Len(calls) = 1
    /\ calls[1].status = "resolved"
    /\ Len(calls[1].promises) = 2
    /\ calls[1].promises[2] = "rejected"

\* ---------------------------------------------------------------------
\* AggregateRoot (src/interfaces/AggregateRoot.ts): the list of domain
\* events one aggregate has recorded.

\* arr.length = n for n within the array: the array truncated to n entries.
setLength(arr, n) == SubSeq(arr, 1, n)

\* addDomainEvent that records an event only once.
addDomainEventOnce(domainEvent) ==
    /\ Len(_domainEvents) < MaxEvents
    /\ _domainEvents' = IF indexOf(_domainEvents, domainEvent) > -1
                        THEN _domainEvents
                        ELSE Append(_domainEvents, domainEvent)
    /\ sinceClear' = Append(sinceClear, domainEvent)
    /\ lastOp' = Op("addDomainEvent", domainEvent, "returned")
    /\ UNCHANGED <<cleared, pubVars>>

\* AggregateRoot.addDomainEvent: this._domainEvents.push(domainEvent).
addDomainEvent(domainEvent) ==
    /\ Len(_domainEvents) < MaxEvents
    /\ _domainEvents' = Append(_domainEvents, domainEvent)
    /\ sinceClear' = Append(sinceClear, domainEvent)
    /\ lastOp' = Op("addDomainEvent", domainEvent, "returned")
    /\ UNCHANGED <<cleared, pubVars>>

\* AggregateRoot.getDomainEvents: returns this._domainEvents.
getDomainEvents ==
    /\ lastOp' = Op("getDomainEvents", "none", _domainEvents)
    /\ UNCHANGED <<_domainEvents, sinceClear, cleared>>
    /\ UNCHANGED pubVars

\* AggregateRoot.clearDomainEvents: this._domainEvents.length = 0.
clearDomainEvents ==
    /\ _domainEvents' = setLength(_domainEvents, 0)
    /\ sinceClear' = <<>>
    /\ cleared' = (cleared \/ _domainEvents # <<>>)
    /\ lastOp' = Op("clearDomainEvents", "none", "returned")
    /\ UNCHANGED pubVars

AggNext ==
    \/ \E e \in Events : addDomainEvent(e)
    \/ getDomainEvents
    \/ clearDomainEvents

AggSpec == Init /\ [][AggNext]_vars

\* C19: getDomainEvents returns exactly the events added since the last
\* clearDomainEvents (or since construction), in the order they were added
\* and with duplicates kept, and changes nothing; clearDomainEvents leaves
\* the list empty.
C19_EventsSinceLastClear ==
    /\ [](lastOp.op = "getDomainEvents" => lastOp.result = sinceClear)
    /\ [][lastOp'.op = "getDomainEvents"
            => _domainEvents' = _domainEvents]_vars
    /\ [][lastOp'.op = "clearDomainEvents" => _domainEvents' = <<>>]_vars

\* Recorded events were cleared; then the same event was added twice and
\* another one once, and getDomainEvents returned those three.
C19_Witness ==
    /\ cleared
    /\ lastOp.op = "getDomainEvents"
    /\ lastOp.result = <<"event1", "event1", "event2">>
    /\ _domainEvents = lastOp.result
====
